---- MODULE Spec2Model ----
(***************************************************************************)
(* Model of time_intersection.py: the interval primitives merge, invert    *)
(* and intersect, and the pipeline normalize_calendars ->                  *)
(* find_common_free -> get_acceptable_times.                               *)
(*                                                                         *)
(* A datetime is the integer date * MinutesPerDay + minute-of-day (the     *)
(* code only ever builds datetimes with zero seconds), so datetime         *)
(* comparison is integer comparison.  An interval is a pair <<start, end>>.*)
(* An 'HH:MM' string that parses is the pair <<HH, MM>> of its fields.     *)
(***************************************************************************)
EXTENDS Integers, Sequences, FiniteSets, TLC

VARIABLES
    pc,           \* which call comes next: "normalize", "find", "filter", "merge", "invert", "intersect", "done"
    clock,        \* the date datetime.today() returns now
    profiles,     \* normalize_calendars: its argument
    p,            \* normalize_calendars: index of the profile of the outer loop
    ev,           \* normalize_calendars: index of the event of the inner loop
    raw,          \* normalize_calendars: the list raw of the current profile
    busy_map,     \* the dict busy_map, in insertion order: a sequence of [name, busy]
    window,       \* find_common_free / invert: the window
    common_free,  \* the list find_common_free returned
    start,        \* get_acceptable_times: parameter start
    end,          \* get_acceptable_times: parameter end
    slots,        \* the list get_acceptable_times returned
    intervals,    \* merge: the caller's list object passed as intervals
    merged,       \* merge: the list returned
    busy,         \* invert: parameter busy
    free,         \* invert: the list returned
    a,            \* intersect: parameter a
    b,            \* intersect: parameter b
    out           \* intersect: the list returned

vars == <<pc, clock, profiles, p, ev, raw, busy_map, window, common_free,
          start, end, slots, intervals, merged, busy, free, a, b, out>>

pipeVars == <<clock, profiles, p, ev, raw, busy_map, window, common_free, start, end, slots>>
mergeVars == <<intervals, merged>>
invertVars == <<busy, free>>
intersectVars == <<a, b, out>>

----------------------------------------------------------------------------
(* Bounds of the model *)

MaxT == 2          \* merge: datetimes of its input are 0..MaxT
MaxLen == 3        \* merge: length of its input list
MaxPoint == 4      \* invert, intersect: datetimes of their inputs are 0..MaxPoint
MaxDate == 2       \* the pipeline's clock goes through the dates 0..MaxDate
MaxDay == 1        \* find_common_free, get_acceptable_times called directly: dates are 0..MaxDay
MaxEvents == 2     \* events in one calendar
MaxProfiles == 2   \* profiles in one normalize_calendars call
MaxFree == 2       \* get_acceptable_times: length of its input list

----------------------------------------------------------------------------
(* datetime *)

MinutesPerDay == 24 * 60

\* time(h, m), as the minute of the day
Time(h, m) == h * 60 + m

\* datetime.strptime(s, '%H:%M').time() of a string that parses
strptime(s) == Time(s[1], s[2])

\* datetime.combine(date, t)
combine(date, t) == date * MinutesPerDay + t

\* dt.time()
time_of(dt) == dt % MinutesPerDay

\* dt.date()
date_of(dt) == dt \div MinutesPerDay

ACCEPTABLE_START == Time(6, 0)
ACCEPTABLE_END == Time(22, 0)

max(x, y) == IF x >= y THEN x ELSE y
min(x, y) == IF x <= y THEN x ELSE y

----------------------------------------------------------------------------
(* Interval primitives *)

\* One step of list.sort(key=lambda x: x[0]): x goes after every element
\* whose start is <= its own (the sort is stable).
RECURSIVE sort_insert(_, _)
sort_insert(s, x) ==
    IF s = <<>> THEN <<x>>
    ELSE IF x[1] < Head(s)[1] THEN <<x>> \o s
    ELSE <<Head(s)>> \o sort_insert(Tail(s), x)

RECURSIVE sort_prefix(_, _)
sort_prefix(s, n) ==
    IF n = 0 THEN <<>> ELSE sort_insert(sort_prefix(s, n - 1), s[n])

\* intervals.sort(key=lambda x: x[0])
sort(s) == sort_prefix(s, Len(s))

\* merge_step with "start < last[1]" for "start <= last[1]": touching intervals stay apart
merge_step_strict(acc, cur) ==
    LET last == acc[Len(acc)] IN
    IF cur[1] < last[2]
    THEN [acc EXCEPT ![Len(acc)] = <<last[1], max(last[2], cur[2])>>]
    ELSE Append(acc, cur)

\* The body of merge's for loop: fold the interval cur into the list merged.
merge_step(acc, cur) ==
    LET last == acc[Len(acc)] IN
    IF cur[1] <= last[2]
    THEN [acc EXCEPT ![Len(acc)] = <<last[1], max(last[2], cur[2])>>]
    ELSE Append(acc, cur)

RECURSIVE merge_loop(_, _, _)
merge_loop(sorted, k, acc) ==
    IF k > Len(sorted) THEN acc
    ELSE merge_loop(sorted, k + 1, merge_step(acc, sorted[k]))

\* merge(intervals): the list it returns
merge(s) ==
    IF s = <<>> THEN <<>>
    ELSE LET sorted == sort(s) IN merge_loop(sorted, 2, <<sorted[1]>>)

\* invert's for loop: state is <<cursor, free>>
RECURSIVE invert_loop(_, _, _, _)
invert_loop(bs, k, cursor, fr) ==
    IF k > Len(bs) THEN <<cursor, fr>>
    ELSE invert_loop(bs, k + 1, max(cursor, bs[k][2]),
                     IF cursor < bs[k][1] THEN Append(fr, <<cursor, bs[k][1]>>) ELSE fr)

\* invert without the free interval after the last busy one
invert_no_tail(bs, w) == invert_loop(bs, 1, w[1], <<>>)[2]

\* invert(busy, window)
invert(bs, w) ==
    LET r == invert_loop(bs, 1, w[1], <<>>) IN
    IF r[1] < w[2] THEN Append(r[2], <<r[1], w[2]>>) ELSE r[2]

\* intersect's while loop
RECURSIVE intersect_loop(_, _, _, _, _)
intersect_loop(x, y, i, j, acc) ==
    IF ~(i <= Len(x) /\ j <= Len(y)) THEN acc
    ELSE LET s == max(x[i][1], y[j][1])
             e == min(x[i][2], y[j][2])
             acc2 == IF s < e THEN Append(acc, <<s, e>>) ELSE acc
         IN IF x[i][2] < y[j][2]
            THEN intersect_loop(x, y, i + 1, j, acc2)
            ELSE intersect_loop(x, y, i, j + 1, acc2)

\* intersect with "start = a[i][0]" for "start = max(a[i][0], b[j][0])"
RECURSIVE intersect_loop_astart(_, _, _, _, _)
intersect_loop_astart(x, y, i, j, acc) ==
    IF ~(i <= Len(x) /\ j <= Len(y)) THEN acc
    ELSE LET s == x[i][1]
             e == min(x[i][2], y[j][2])
             acc2 == IF s < e THEN Append(acc, <<s, e>>) ELSE acc
         IN IF x[i][2] < y[j][2]
            THEN intersect_loop_astart(x, y, i + 1, j, acc2)
            ELSE intersect_loop_astart(x, y, i, j + 1, acc2)

intersect_astart(x, y) == intersect_loop_astart(x, y, 1, 1, <<>>)

\* intersect(a, b)
intersect(x, y) == intersect_loop(x, y, 1, 1, <<>>)

\* functools.reduce(f, lists) of a non-empty list, f = intersect
RECURSIVE reduce_from(_, _, _)
reduce_from(lists, k, acc) ==
    IF k > Len(lists) THEN acc
    ELSE reduce_from(lists, k + 1, intersect(acc, lists[k]))

reduce(lists) == reduce_from(lists, 2, lists[1])

----------------------------------------------------------------------------
(* Pipeline functions, as functions of what they read *)

\* busy_map[name] = value on a dict kept in insertion order
dict_set(d, name, value) ==
    IF \E k \in 1..Len(d) : d[k].name = name
    THEN [k \in 1..Len(d) |-> IF d[k].name = name THEN [name |-> name, busy |-> value] ELSE d[k]]
    ELSE Append(d, [name |-> name, busy |-> value])

\* the window find_common_free builds from the date it reads
today_window(date) == <<combine(date, Time(0, 0)), combine(date, Time(23, 59))>>

\* find_common_free(busy_map) when datetime.today().date() is date
find_common_free(bm, date) ==
    LET free_lists == [k \in 1..Len(bm) |-> invert(bm[k].busy, today_window(date))] IN
    IF free_lists # <<>> THEN reduce(free_lists) ELSE <<>>

RECURSIVE acceptable_loop(_, _, _, _, _)
acceptable_loop(cf, k, lo, hi, acc) ==
    IF k > Len(cf) THEN acc
    ELSE acceptable_loop(cf, k + 1, lo, hi,
            IF time_of(cf[k][1]) >= lo /\ time_of(cf[k][2]) <= hi
            THEN Append(acc, cf[k]) ELSE acc)

\* get_acceptable_times that clips an interval ending after end instead of dropping it
RECURSIVE acceptable_loop_clip(_, _, _, _, _)
acceptable_loop_clip(cf, k, lo, hi, acc) ==
    IF k > Len(cf) THEN acc
    ELSE acceptable_loop_clip(cf, k + 1, lo, hi,
            IF time_of(cf[k][1]) >= lo
            THEN Append(acc, <<cf[k][1],
                               IF time_of(cf[k][2]) <= hi THEN cf[k][2]
                               ELSE cf[k][2] - (time_of(cf[k][2]) - hi)>>)
            ELSE acc)

get_acceptable_times_clip(cf, lo, hi) == acceptable_loop_clip(cf, 1, lo, hi, <<>>)

\* get_acceptable_times(common_free, start, end)
get_acceptable_times(cf, lo, hi) == acceptable_loop(cf, 1, lo, hi, <<>>)

----------------------------------------------------------------------------
(* Input domains *)

SeqUpTo(S, n) == UNION {[1..k -> S] : k \in 0..n}

\* sorted by start, every interval non-empty, no two overlapping or touching
IsCanonical(s) ==
    /\ \A i \in 1..Len(s) : s[i][1] < s[i][2]
    /\ \A i \in 1..(Len(s) - 1) : s[i][2] < s[i + 1][1]

ProperIntervals(P) == {iv \in P \X P : iv[1] < iv[2]}

CanonicalLists(P) ==
    {s \in SeqUpTo(ProperIntervals(P), Cardinality(P) \div 2) : IsCanonical(s)}

Points == 0..MaxPoint
Dates == 0..MaxDay

\* 'HH:MM' strings of the sample calendars
TimeStrings == {<<9, 0>>, <<13, 0>>}
Names == {"Alice", "Bob"}
Events == [start : TimeStrings, end : TimeStrings]
Profiles == [name : Names, calendar : SeqUpTo(Events, MaxEvents)]

\* the profiles of example()
ExampleProfiles ==
    << [name |-> "Alice", calendar |-> << [start |-> <<12, 0>>, end |-> <<13, 0>>],
                                          [start |-> <<14, 0>>, end |-> <<15, 0>>] >>],
       [name |-> "Bob",   calendar |-> << [start |-> <<9, 0>>, end |-> <<13, 0>>] >>] >>

\* participants of a busy map handed to find_common_free directly
SelectedNames == <<"Alice", "Bob", "Charlie">>
DayEdges == {Time(0, 0), Time(23, 59)}
Instants == {combine(d, t) : d \in Dates, t \in DayEdges}
InstantLists == CanonicalLists(Instants)
PointLists == CanonicalLists(Points)
\* the busy map of the first Len(lists) selected names
BusyMapOf(lists) == [k \in 1..Len(lists) |-> [name |-> SelectedNames[k], busy |-> lists[k]]]

\* busy maps of one or two participants with events inside the day
FoldTimes == {Time(0, 0), Time(12, 0), Time(23, 59)}
FoldInstants == {combine(d, t) : d \in Dates, t \in FoldTimes}
FoldLists == CanonicalLists(FoldInstants)

\* inputs of get_acceptable_times
FilterTimes == {Time(0, 0), Time(12, 0), Time(23, 59)}
FilterInstants == {combine(d, t) : d \in Dates, t \in FilterTimes}
FilterRanges == (FilterTimes \X FilterTimes) \cup {<<ACCEPTABLE_START, ACCEPTABLE_END>>}

----------------------------------------------------------------------------
(* Initial states: the variables a call does not use stay at these values *)

PipeIdle ==
    /\ clock = 0 /\ profiles = <<>> /\ p = 1 /\ ev = 1 /\ raw = <<>>
    /\ busy_map = <<>> /\ window = <<>> /\ common_free = <<>>
    /\ start = ACCEPTABLE_START /\ end = ACCEPTABLE_END /\ slots = <<>>
MergeIdle == intervals = <<>> /\ merged = <<>>
InvertIdle == busy = <<>> /\ free = <<>>
IntersectIdle == a = <<>> /\ b = <<>> /\ out = <<>>

\* a caller about to run normalize_calendars(profiles) and the rest of the pipeline
InitPipeline(inputs) ==
    /\ pc = "normalize"
    /\ clock = 0
    /\ profiles \in inputs
    /\ p = 1 /\ ev = 1 /\ raw = <<>> /\ busy_map = <<>>
    /\ window = <<>> /\ common_free = <<>>
    /\ start = ACCEPTABLE_START /\ end = ACCEPTABLE_END /\ slots = <<>>
    /\ MergeIdle /\ InvertIdle /\ IntersectIdle

Init == InitPipeline(SeqUpTo(Profiles, MaxProfiles))

InitExample == InitPipeline({ExampleProfiles})

InitMerge ==
    /\ pc = "merge"
    /\ intervals \in SeqUpTo((0..MaxT) \X (0..MaxT), MaxLen)
    /\ merged = <<>>
    /\ PipeIdle /\ InvertIdle /\ IntersectIdle

InitInvert ==
    /\ pc = "invert"
    /\ busy \in PointLists
    /\ free = <<>>
    /\ clock = 0 /\ profiles = <<>> /\ p = 1 /\ ev = 1 /\ raw = <<>>
    /\ busy_map = <<>> /\ common_free = <<>>
    /\ window \in ProperIntervals(Points)
    /\ start = ACCEPTABLE_START /\ end = ACCEPTABLE_END /\ slots = <<>>
    /\ MergeIdle /\ IntersectIdle

InitIntersect ==
    /\ pc = "intersect"
    /\ a \in PointLists
    /\ b \in PointLists
    /\ out = <<>>
    /\ PipeIdle /\ MergeIdle /\ InvertIdle

\* a caller about to run find_common_free on a busy map of its own
InitFind ==
    /\ pc = "find"
    /\ clock \in Dates
    /\ \E n \in 0..Len(SelectedNames) : \E lists \in [1..n -> InstantLists] :
            busy_map = BusyMapOf(lists)
    /\ profiles = <<>> /\ p = 1 /\ ev = 1 /\ raw = <<>>
    /\ window = <<>> /\ common_free = <<>>
    /\ start = ACCEPTABLE_START /\ end = ACCEPTABLE_END /\ slots = <<>>
    /\ MergeIdle /\ InvertIdle /\ IntersectIdle

InitCommon == InitIntersect \/ InitFind

InitFold ==
    /\ pc = "find"
    /\ clock \in Dates
    /\ \E n \in 1..2 : \E lists \in [1..n -> FoldLists] : busy_map = BusyMapOf(lists)
    /\ profiles = <<>> /\ p = 1 /\ ev = 1 /\ raw = <<>>
    /\ window = <<>> /\ common_free = <<>>
    /\ start = ACCEPTABLE_START /\ end = ACCEPTABLE_END /\ slots = <<>>
    /\ MergeIdle /\ InvertIdle /\ IntersectIdle

InitFilter ==
    /\ pc = "filter"
    /\ common_free \in SeqUpTo(ProperIntervals(FilterInstants), MaxFree)
    /\ \E r \in FilterRanges : start = r[1] /\ end = r[2]
    /\ clock = 0 /\ profiles = <<>> /\ p = 1 /\ ev = 1 /\ raw = <<>>
    /\ busy_map = <<>> /\ window = <<>> /\ slots = <<>>
    /\ MergeIdle /\ InvertIdle /\ IntersectIdle

----------------------------------------------------------------------------
(* Actions *)

\* midnight passes: datetime.today() moves to the next date
tick ==
    /\ pc \in {"normalize", "find", "filter"}
    /\ clock < MaxDate
    /\ clock' = clock + 1
    /\ UNCHANGED <<pc, profiles, p, ev, raw, busy_map, window, common_free,
                   start, end, slots, mergeVars, invertVars, intersectVars>>

\* normalize_calendars, one pass of the inner loop: read the date, parse, append
normalize_event ==
    /\ pc = "normalize"
    /\ p <= Len(profiles)
    /\ ev <= Len(profiles[p].calendar)
    /\ LET e == profiles[p].calendar[ev]
           date == clock
           st == combine(date, strptime(e.start))
           en == combine(date, strptime(e.end))
       IN raw' = Append(raw, <<st, en>>)
    /\ ev' = ev + 1
    /\ UNCHANGED <<pc, clock, profiles, p, busy_map, window, common_free,
                   start, end, slots, mergeVars, invertVars, intersectVars>>

\* normalize_calendars, end of one pass of the outer loop: busy_map[name] = merge(raw)
normalize_profile ==
    /\ pc = "normalize"
    /\ p <= Len(profiles)
    /\ ev > Len(profiles[p].calendar)
    /\ busy_map' = dict_set(busy_map, profiles[p].name, merge(raw))
    /\ p' = p + 1
    /\ ev' = 1
    /\ raw' = <<>>
    /\ UNCHANGED <<pc, clock, profiles, window, common_free,
                   start, end, slots, mergeVars, invertVars, intersectVars>>

\* normalize_calendars returns busy_map
normalize_return ==
    /\ pc = "normalize"
    /\ p > Len(profiles)
    /\ pc' = "find"
    /\ UNCHANGED <<clock, profiles, p, ev, raw, busy_map, window, common_free,
                   start, end, slots, mergeVars, invertVars, intersectVars>>

\* find_common_free(busy_map)
call_find_common_free ==
    /\ pc = "find"
    /\ window' = today_window(clock)
    /\ common_free' = find_common_free(busy_map, clock)
    /\ pc' = "filter"
    /\ UNCHANGED <<clock, profiles, p, ev, raw, busy_map,
                   start, end, slots, mergeVars, invertVars, intersectVars>>

\* get_acceptable_times(common_free, start, end)
call_get_acceptable_times ==
    /\ pc = "filter"
    /\ slots' = get_acceptable_times(common_free, start, end)
    /\ pc' = "done"
    /\ UNCHANGED <<clock, profiles, p, ev, raw, busy_map, window, common_free,
                   start, end, mergeVars, invertVars, intersectVars>>

\* merge(intervals): sorts the caller's list in place, returns the merged list
call_merge ==
    /\ pc = "merge"
    /\ intervals' = sort(intervals)
    /\ merged' = merge(intervals)
    /\ pc' = "done"
    /\ UNCHANGED <<pipeVars, invertVars, intersectVars>>

\* invert(busy, window)
call_invert ==
    /\ pc = "invert"
    /\ free' = invert(busy, window)
    /\ pc' = "done"
    /\ UNCHANGED <<pipeVars, busy, mergeVars, intersectVars>>

\* intersect(a, b)
call_intersect ==
    /\ pc = "intersect"
    /\ out' = intersect(a, b)
    /\ pc' = "done"
    /\ UNCHANGED <<pipeVars, a, b, mergeVars, invertVars>>

----------------------------------------------------------------------------
(* Specifications *)

Next ==
    \/ tick
    \/ normalize_event
    \/ normalize_profile
    \/ normalize_return
    \/ call_find_common_free
    \/ call_get_acceptable_times

\* the pipeline on generated profiles
Spec == Init /\ [][Next]_vars

\* example()
SpecExample == InitExample /\ [][Next]_vars

NextMerge == call_merge
SpecMerge == InitMerge /\ [][NextMerge]_vars

NextInvert == call_invert
SpecInvert == InitInvert /\ [][NextInvert]_vars

NextCommon == call_intersect \/ call_find_common_free
SpecCommon == InitCommon /\ [][NextCommon]_vars

NextFold == call_find_common_free
SpecFold == InitFold /\ [][NextFold]_vars

NextFilter == call_get_acceptable_times
SpecFilter == InitFilter /\ [][NextFilter]_vars

----------------------------------------------------------------------------
(* Properties *)

\* All interval ends of the model lie on a finite grid of datetimes.  The
\* stretch of time from the grid point t to the next grid point lies in a
\* list iff t lies in one of its intervals read as start <= t < end, which
\* settles membership everywhere except at the boundary points themselves.
covers(s, t) == \E i \in 1..Len(s) : s[i][1] <= t /\ t < s[i][2]

found == pc \in {"filter", "done"}

\* C1: with N >= 1 participants and canonical busy lists, an instant t lies in
\* the list find_common_free returns iff t lies in the window and in a free
\* interval of every participant, the free intervals being invert(busy, window).
C1_FoldCorrectness ==
    (found /\ busy_map # <<>>) =>
        \A t \in FoldInstants :
            covers(common_free, t) <=>
                /\ covers(<<window>>, t)
                /\ \A k \in 1..Len(busy_map) : covers(invert(busy_map[k].busy, window), t)

\* C2: merge(X) is sorted by start, and each output interval starts strictly
\* after the end of the one before it (no overlap, no touching).
C2_MergeCanonicalForm ==
    pc = "done" =>
        /\ \A i, j \in 1..Len(merged) : i < j => merged[i][1] <= merged[j][1]
        /\ \A i \in 1..(Len(merged) - 1) : merged[i + 1][1] > merged[i][2]

\* C2 witness: merge has folded three intervals into two
C2_Witness ==
    pc = "done" /\ Len(intervals) = 3 /\ Len(merged) = 2

IsProper(iv) == iv[1] < iv[2]

\* C3: merge leaves out every input interval with start >= end: none appears
\* in the output, and none changes the bounds of an output interval (the
\* output is the one merge gives for the input without them).
C3_MergeDropsEmpty ==
    pc = "done" =>
        /\ \A i \in 1..Len(merged) : IsProper(merged[i])
        /\ merged = merge(SelectSeq(intervals, IsProper))

\* C4: for a canonical busy list B and a window W with W.start < W.end, the
\* intervals of invert(B, W) are disjoint from B, lie inside W, and together
\* with B cover W exactly.
C4_InvertComplement ==
    pc = "done" =>
        /\ \A i \in 1..Len(free) : window[1] <= free[i][1] /\ free[i][2] <= window[2]
        /\ \A t \in Points : ~(covers(free, t) /\ covers(busy, t))
        /\ \A t \in Points : covers(<<window>>, t) => (covers(free, t) \/ covers(busy, t))

\* C5: whatever the clock does during normalize_calendars and before
\* find_common_free, every busy interval of every participant and the window
\* used for the inversion carry the same date.
C5_SameReferenceDate ==
    found =>
        /\ date_of(window[1]) = date_of(window[2])
        /\ \A k \in 1..Len(busy_map) : \A i \in 1..Len(busy_map[k].busy) :
              /\ date_of(busy_map[k].busy[i][1]) = date_of(window[1])
              /\ date_of(busy_map[k].busy[i][2]) = date_of(window[1])

ScenarioBusy(d) ==
    << [name |-> "Alice", busy |-> << <<combine(d, Time(12, 0)), combine(d, Time(13, 0))>>,
                                      <<combine(d, Time(14, 0)), combine(d, Time(15, 0))>> >>],
       [name |-> "Bob",   busy |-> << <<combine(d, Time(9, 0)), combine(d, Time(13, 0))>> >>] >>

\* C7: Scenario A: Alice busy 12:00-13:00 and 14:00-15:00, Bob busy
\* 09:00-13:00, window 00:00-23:59 of that day: find_common_free returns
\* exactly 13:00-14:00 and 15:00-23:59.
C7_ScenarioA ==
    (found /\ busy_map = ScenarioBusy(date_of(window[1]))) =>
        LET d == date_of(window[1]) IN
        /\ window = <<combine(d, Time(0, 0)), combine(d, Time(23, 59))>>
        /\ common_free = << <<combine(d, Time(13, 0)), combine(d, Time(14, 0))>>,
                            <<combine(d, Time(15, 0)), combine(d, Time(23, 59))>> >>

\* C7, amended: in Scenario A find_common_free returns exactly 00:00-09:00,
\* 13:00-14:00 and 15:00-23:59: nobody is busy before 09:00.
C7_ScenarioA_Amended ==
    (found /\ busy_map = ScenarioBusy(date_of(window[1]))) =>
        LET d == date_of(window[1]) IN
        /\ window = <<combine(d, Time(0, 0)), combine(d, Time(23, 59))>>
        /\ common_free = << <<combine(d, Time(0, 0)), combine(d, Time(9, 0))>>,
                            <<combine(d, Time(13, 0)), combine(d, Time(14, 0))>>,
                            <<combine(d, Time(15, 0)), combine(d, Time(23, 59))>> >>

\* C7 witness: example() has reached the end of find_common_free with the
\* scenario's busy map on the window's date
C7_Witness ==
    pc = "filter" /\ profiles = ExampleProfiles /\ busy_map = ScenarioBusy(date_of(window[1]))

\* C8: intersect(A, B) = intersect(B, A) for canonical A and B, and
\* find_common_free returns the same list for every order of the
\* participants in the busy map.
C8_FoldOrder ==
    /\ pc = "done" => out = intersect(b, a)
    /\ pc = "filter" =>
          \A perm \in Permutations(1..Len(busy_map)) :
              find_common_free([k \in 1..Len(busy_map) |-> busy_map[perm[k]]], clock)
                  = common_free

\* C8 witness: three participants with three different busy lists and some
\* common free time
C8_Witness ==
    /\ pc = "filter"
    /\ Len(busy_map) = 3
    /\ busy_map[1].busy # busy_map[2].busy
    /\ busy_map[2].busy # busy_map[3].busy
    /\ busy_map[1].busy # busy_map[3].busy
    /\ \A k \in 1..3 : busy_map[k].busy # <<>>
    /\ common_free # <<>>

\* C9: merge does not change the list it is given.
C9_MergeLeavesInput == [][call_merge => intervals' = intervals]_vars

\* C10: the list find_common_free(normalize_calendars(records)) returns has
\* start < end in every interval, is sorted by start, and has no two
\* intervals overlapping.
C10_CommonFreeCanonical ==
    found =>
        /\ \A i \in 1..Len(common_free) : IsProper(common_free[i])
        /\ \A i \in 1..(Len(common_free) - 1) :
              /\ common_free[i][1] <= common_free[i + 1][1]
              /\ common_free[i][2] <= common_free[i + 1][1]

====
